---- MODULE Spec2Model ----
(***************************************************************************)
(* Model of backend/app/monitoring.py: the entropy estimator               *)
(* (FileMutationEntropy), the burst tracker (AdaptiveBurstThreshold), the  *)
(* detection engine (RansomwareDetector) and the polling watcher           *)
(* (FileSystemMonitor with start/stop/status).                             *)
(*                                                                         *)
(* Eight specifications share the definitions:                             *)
(*   SpecABT   a tracker driven directly by one thread, as the test driver *)
(*             test_fme_abt.py drives it;                                  *)
(*   SpecDet   a detector whose analyze_file_change is called directly;    *)
(*   SpecRules the rule steps of analyze_file_change applied to given      *)
(*             inputs;                                                     *)
(*   SpecEnt   calculate_entropy applied to given byte sequences;          *)
(*   SpecSample the windows calculate_file_entropy reads, for given sizes; *)
(*   SpecWalk  the poll loop, its calls of _process_file_event taken as    *)
(*             returning;                                                  *)
(*   SpecRet   the RetentionManager of backend/app/background_jobs.py and  *)
(*             its cleanup threads;                                        *)
(*   Spec      the watcher: start/stop/status and the polling workers.     *)
(*                                                                         *)
(* Floats are modelled as exact rationals <<numerator, denominator>> with  *)
(* a positive denominator; the entropy of a file is an integer in          *)
(* hundredths of a bit.                                                    *)
(* A thread is a program counter, a stack of return sites and a frame of   *)
(* locals; every function of the source is one action that runs the next   *)
(* segment of that function up to its next call or lock acquisition.       *)
(***************************************************************************)
EXTENDS Integers, Sequences, FiniteSets, TLC

\* ------------------------------------------------------------------ bounds
MaxEvents == 11
MaxTime == 3
MaxPrior == 4
MaxInst == 2
MaxData == 4
MaxRepeat == 2
MaxWrites == 2
MaxSize == 12
MaxSample == 9
MaxLoops == 3
MaxMinutes == 2

\* ------------------------------------------------------------- rationals
RLt(a, b) == a[1] * b[2] < b[1] * a[2]
RLe(a, b) == ~RLt(b, a)
REq(a, b) == a[1] * b[2] = b[1] * a[2]
\* Python's min(a, b): b when b < a, else a; max(a, b): b when b > a, else a.
PyMin(a, b) == IF RLt(b, a) THEN b ELSE a
PyMax(a, b) == IF RLt(a, b) THEN b ELSE a
IntMax(a, b) == IF b > a THEN b ELSE a

\* --------------------------------------------------------------- threads
\* Threads are integers: the harness thread is negative, 0 is the thread
\* that calls start/stop/status, i in 1..MaxInst is the polling worker of
\* the i-th FileSystemMonitor.  Detector 0 is the one the harness builds,
\* detector i belongs to the i-th monitor.
NoThread == -100
Harness == {-1}
Main == 0
Workers == 1 .. MaxInst
Threads == Harness \cup {Main} \cup Workers
Detectors == 0 .. MaxInst

\* ----------------------------------------------------------------- paths
\* A path is <<root, stem, extension>>; os.path.splitext(path)[1] is the
\* third component.
Roots == {"r1", "r2"}
Paths == {<<"r1", "a", ".txt">>, <<"r1", "b", ".LOCKED">>, <<"r2", "c", ".dat">>}
TrackerPaths == {<<"r1", "a", ".txt">>}
DetPaths == {<<"r1", "b", ".LOCKED">>, <<"r2", "c", ".dat">>}
NoPath == <<"", "", "">>
splitext_ext(p) == p[3]
\* str.lower() on the extensions that occur.
lower(s) == CASE s = ".LOCKED" -> ".locked"
              [] s = ".ENC" -> ".enc"
              [] OTHER -> s

\* ----------------------------------------------------------------- files
\* A file is absent (or cannot be opened), or present with the Shannon
\* entropy of its sampled content, in hundredths of a bit per byte.
Absent == -1
DetLevels == {600, 700, 750, 800}
WatchLevels == {800}
WatchFiles == {<<"r1", "b", ".LOCKED">>}
Actions == {"created", "modified", "deleted"}

\* ---------------------------------------------------- tracker parameters
WindowSizes == {1, 2}
Multipliers == {<<-1, 1>>, <<1, 2>>, <<3, 1>>}
DefaultWindowSize == 60
DefaultBurstMultiplier == <<3, 1>>
\* The watch_paths lists start_file_monitoring is given.
WatchLists == {<<"r1", "r2">>}

VARIABLES
  now,               \* the wall clock, in seconds
  fs,                \* the filesystem: path -> file state
  writes,            \* the number of writes to the filesystem so far, up to MaxWrites
  window_size,       \* detector -> AdaptiveBurstThreshold.window_size
  burst_multiplier,  \* detector -> AdaptiveBurstThreshold.burst_multiplier
  file_events,       \* detector -> AdaptiveBurstThreshold.file_events
  lock,              \* detector -> holder of AdaptiveBurstThreshold.lock
  pc,                \* thread -> program counter
  stack,             \* thread -> return sites of the calls in progress
  frame,             \* thread -> locals and last return values
  monitor_instance,  \* the global _monitor_instance: 0 is None, else the monitor
  created,           \* the number of FileSystemMonitor objects built so far
  monitors,          \* monitor -> the fields of the FileSystemMonitor
  locals,            \* worker -> the locals of its monitor_loop
  session,           \* monitor -> the records added to its db_session, not yet committed
  committed,         \* the rows committed to the database, in commit order
  data,              \* the byte sequence handed to calculate_entropy
  entropy,           \* what calculate_entropy returned for it
  sample,            \* a file size, a sample_size and the windows read for them
  retention          \* the RetentionManager: its fields and its cleanup threads

entropyVars == <<data, entropy>>
otherVars == <<sample, retention>>
watcherVars == <<monitor_instance, created, monitors, locals, session, committed>>
vars == <<now, fs, writes, window_size, burst_multiplier, file_events, lock, pc, stack, frame,
          monitor_instance, created, monitors, locals, session, committed, data, entropy, sample, retention>>

\* No file sampled yet; a RetentionManager as __init__ leaves it (lines
\* 25-26), no cleanup thread started.
NoSample == [file_size |-> 0, sample_size |-> 0, windows |-> <<>>, read |-> FALSE]

NoRetention ==
  [running |-> FALSE, cleanup_thread |-> 0,
   loops |-> [k \in 1 .. MaxLoops |-> [pc |-> "unstarted", minutes |-> 0]],
   asked |-> {}, caller |-> "idle", last |-> "none"]

\* The detector a thread works on.  The thread of start/stop/status keeps
\* the monitor it read from _monitor_instance in its frame for the length of
\* the call.
det(t) == IF t < 0 THEN 0 ELSE IF t = Main THEN frame[t].inst ELSE t

\* ----------------------------------------------------- calls and returns
Call(t, fn, site) ==
  /\ pc' = [pc EXCEPT ![t] = fn]
  /\ stack' = [stack EXCEPT ![t] = <<site>> \o @]

Return(t) ==
  IF stack[t] = <<>>
  THEN /\ pc' = [pc EXCEPT ![t] = "idle"]
       /\ UNCHANGED stack
  ELSE /\ pc' = [pc EXCEPT ![t] = Head(stack[t])]
       /\ stack' = [stack EXCEPT ![t] = Tail(@)]

\* The result dictionary of analyze_file_change, lines 122-130.
InitResult ==
  [is_ransomware |-> FALSE, is_suspicious |-> FALSE, fme |-> 0, abt |-> <<0, 1>>,
   severity |-> "info", type |-> "Benign", reasons |-> <<>>]

EmptyFrame ==
  [path |-> NoPath, action |-> "none", last |-> "none",
   r_abt |-> <<0, 1>>, n_read |-> 0, t_read |-> 0,
   rate |-> <<0, 1>>, r_burst |-> FALSE,
   fme |-> 0, result |-> InitResult, r_raas |-> FALSE, r_alert |-> FALSE,
   event_fme |-> 0, inst |-> 0, r_ok |-> FALSE, r_status |-> "none", r_count |-> 0,
   r_joined |-> FALSE, r_keys |-> {}, raised |-> FALSE, n_evicted |-> 0]

\* ------------------------------------------------ AdaptiveBurstThreshold
\* Entries are <<timestamp, path>>.
\* Mutant of evict: keeps the entries stamped exactly cutoff_time.
evict_keeps_boundary(events, cutoff_time) ==
  LET keep(e) == e[1] >= cutoff_time IN SelectSeq(events, keep)

evict(events, cutoff_time) ==
  LET keep(e) == e[1] > cutoff_time IN SelectSeq(events, keep)

\* add_event: one critical section, append then evict.  n_evicted is
\* history: how many entries the call removed.
add_event(t) ==
  LET d == det(t)
      appended == Append(file_events[d], <<now, frame[t].path>>)
      cutoff_time == now - window_size[d]
  IN /\ pc[t] = "add_event"
     /\ lock[d] = NoThread
     /\ file_events' = [file_events EXCEPT ![d] = evict(appended, cutoff_time)]
     /\ frame' = [frame EXCEPT ![t].last = "add_event",
                               ![t].n_evicted = Len(appended) - Len(evict(appended, cutoff_time))]
     /\ Return(t)
     /\ UNCHANGED <<writes, entropyVars, otherVars, watcherVars, now, fs, window_size, burst_multiplier, lock>>

\* Mutants of abt_value: without the clamp of line 101; with the test of
\* line 90 against 5 instead of 10.
abt_value_unclamped(events, ws, bm) ==
  IF Len(events) < 10
  THEN <<2, 1>>
  ELSE <<Len(events) * bm[1], ws * bm[2]>>

abt_value_below5(events, ws, bm) ==
  IF Len(events) < 5
  THEN <<2, 1>>
  ELSE PyMax(<<1, 1>>, PyMin(<<10, 1>>, <<Len(events) * bm[1], ws * bm[2]>>))

\* Mutant of abt_value: the rate of line 94 inverted, window_size over the
\* number of events.
abt_value_inverted(events, ws, bm) ==
  IF Len(events) < 10
  THEN <<2, 1>>
  ELSE PyMax(<<1, 1>>, PyMin(<<10, 1>>, <<ws * bm[1], Len(events) * bm[2]>>))

\* The value calculate_abt returns, lines 90-101.
abt_value(events, ws, bm) ==
  IF Len(events) < 10
  THEN <<2, 1>>
  ELSE LET recent_events == Len(events)
           abt == <<recent_events * bm[1], ws * bm[2]>>
       IN PyMax(<<1, 1>>, PyMin(<<10, 1>>, abt))

\* calculate_abt: acquires the lock, reads the window, releases the lock and
\* returns.  The frame keeps the value returned and what the read saw.
calculate_abt(t) ==
  LET d == det(t) IN
  /\ pc[t] = "calculate_abt"
  /\ lock[d] = NoThread
  /\ frame' = [frame EXCEPT ![t].r_abt = abt_value(file_events[d], window_size[d], burst_multiplier[d]),
                            ![t].n_read = Len(file_events[d]),
                            ![t].t_read = now,
                            ![t].last = "calculate_abt"]
  /\ Return(t)
  /\ UNCHANGED <<writes, entropyVars, otherVars, watcherVars, now, fs, window_size, burst_multiplier, file_events, lock>>

\* Mutant of burst_decision: a rate equal to the threshold is a burst.
burst_decision_ge(abt, current_rate) == RLe(abt, current_rate)

\* Line 108: current_rate > abt.
burst_decision(abt, current_rate) == RLt(abt, current_rate)

\* is_burst_detected: takes the lock, computes current_rate and, still
\* holding the lock, calls calculate_abt (line 107), which takes the same
\* non-reentrant threading.Lock.  Line 108 runs when that call returns.
is_burst_detected(t) ==
  LET d == det(t) IN
  /\ pc[t] \in {"is_burst_detected", "is_burst_detected:108"}
  /\ IF pc[t] = "is_burst_detected"
     THEN /\ lock[d] = NoThread
          /\ lock' = [lock EXCEPT ![d] = t]
          /\ frame' = [frame EXCEPT ![t].rate = <<Len(file_events[d]), IntMax(1, window_size[d])>>]
          /\ Call(t, "calculate_abt", "is_burst_detected:108")
     ELSE /\ lock' = [lock EXCEPT ![d] = NoThread]
          /\ frame' = [frame EXCEPT ![t].r_burst = burst_decision(frame[t].r_abt, frame[t].rate),
                                    ![t].last = "is_burst_detected"]
          /\ Return(t)
  /\ UNCHANGED <<writes, entropyVars, otherVars, watcherVars, now, fs, window_size, burst_multiplier, file_events>>

\* --------------------------------------------------- FileMutationEntropy
\* math.log2 of the frequency num / den, 0 < num <= den, in fixed point: the
\* result counts units of 2^-FracBits of a bit.  The exponent is found by
\* doubling num up to den, the fraction bit by bit by squaring the mantissa,
\* which is kept in units of 1 / Unit.  Like math.log2, it is exact at the
\* powers of two; elsewhere it is the logarithm rounded down.
FracBits == 10
Unit == 16384

RECURSIVE Doublings(_, _)
Doublings(num, den) == IF num >= den THEN 0 ELSE 1 + Doublings(2 * num, den)

RECURSIVE FractionBits(_, _)
FractionBits(mantissa, k) ==
  IF k = 0
  THEN 0
  ELSE LET square == (mantissa * mantissa) \div Unit IN
       IF square >= 2 * Unit
       THEN 2 ^ (k - 1) + FractionBits(square \div 2, k - 1)
       ELSE FractionBits(square, k - 1)

log2(num, den) ==
  LET e == Doublings(num, den)
      mantissa == (num * (2 ^ e) * Unit) \div den
  IN FractionBits(mantissa, FracBits) - e * (2 ^ FracBits)

\* byte_counts, lines 29-31.
byte_counts(bytes) ==
  [b \in 0 .. 255 |-> Cardinality({i \in 1 .. Len(bytes) : bytes[i] = b})]

\* The loop of lines 37-40 over the byte values lo .. hi: the sum of
\* count * log2(count / data_len), to be divided by data_len.  The range is
\* summed by halves; the sum is exact, so its order does not matter.
RECURSIVE weighted_logs(_, _, _, _)
weighted_logs(counts, data_len, lo, hi) ==
  IF lo = hi
  THEN IF counts[lo] > 0 THEN counts[lo] * log2(counts[lo], data_len) ELSE 0
  ELSE LET mid == (lo + hi) \div 2 IN
       weighted_logs(counts, data_len, lo, mid) + weighted_logs(counts, data_len, mid + 1, hi)

\* Mutants of calculate_entropy: with "entropy +=" for "entropy -=" at line
\* 40; with the frequency taken over 256 instead of len(data) at line 39.
calculate_entropy_added(bytes) ==
  IF bytes = <<>>
  THEN <<0, 1>>
  ELSE <<weighted_logs(byte_counts(bytes), Len(bytes), 0, 255), Len(bytes) * (2 ^ FracBits)>>

calculate_entropy_over256(bytes) ==
  IF bytes = <<>>
  THEN <<0, 1>>
  ELSE <<0 - weighted_logs(byte_counts(bytes), 256, 0, 255), 256 * (2 ^ FracBits)>>

\* calculate_entropy, lines 24-42: a rational number of bits per byte.
calculate_entropy(bytes) ==
  IF bytes = <<>>
  THEN <<0, 1>>
  ELSE LET data_len == Len(bytes) IN
       <<0 - weighted_logs(byte_counts(bytes), data_len, 0, 255), data_len * (2 ^ FracBits)>>

\* No value: calculate_entropy has not been applied.
NotComputed == <<0, 0>>

\* calculate_file_entropy: 0.0 when the file cannot be opened or read, else
\* the entropy of the sampled content.
calculate_file_entropy(p) == IF fs[p] = Absent THEN 0 ELSE fs[p]

\* ---------------------------------------------------- RansomwareDetector
suspicious_extensions == {".enc", ".locked", ".crypted", ".crypto", ".ransom"}
high_entropy_threshold == 750
medium_entropy_threshold == 600

\* Mutant of extension_check: the extension alone raises the severity and the
\* type.
extension_check_raises(result, file_path) ==
  LET file_ext == lower(splitext_ext(file_path)) IN
  IF file_ext \in suspicious_extensions
  THEN [result EXCEPT !.is_suspicious = TRUE, !.severity = "low", !.type = "Suspicious",
                      !.reasons = Append(@, "Suspicious extension")]
  ELSE result

\* Lines 141-145.
extension_check(result, file_path) ==
  LET file_ext == lower(splitext_ext(file_path)) IN
  IF file_ext \in suspicious_extensions
  THEN [result EXCEPT !.is_suspicious = TRUE,
                      !.reasons = Append(@, "Suspicious extension")]
  ELSE result

\* Lines 147-157.
entropy_check(result, fme) ==
  IF fme > high_entropy_threshold
  THEN [result EXCEPT !.is_ransomware = TRUE, !.severity = "critical",
                      !.type = "Ransomware", !.reasons = Append(@, "High entropy")]
  ELSE IF fme > medium_entropy_threshold
  THEN [result EXCEPT !.is_suspicious = TRUE, !.severity = "medium",
                      !.type = "Suspicious", !.reasons = Append(@, "Medium entropy")]
  ELSE result

\* Lines 159-164.
burst_check(result, burst) ==
  IF burst
  THEN [result EXCEPT !.is_suspicious = TRUE,
                      !.severity = IF @ = "info" THEN "low" ELSE @,
                      !.reasons = Append(@, "Burst activity detected")]
  ELSE result

\* Mutant of rapid_check: without the assignment of the type (line 170).
rapid_check_keeps_type(result, action, fme) ==
  IF action = "modified" /\ fme > 650
  THEN [result EXCEPT !.is_ransomware = TRUE, !.severity = "high",
                      !.reasons = Append(@, "Rapid encryption pattern")]
  ELSE result

\* Lines 166-171.
rapid_check(result, action, fme) ==
  IF action = "modified" /\ fme > 650
  THEN [result EXCEPT !.is_ransomware = TRUE, !.severity = "high",
                      !.type = "Ransomware", !.reasons = Append(@, "Rapid encryption pattern")]
  ELSE result

\* Lines 173-178.
raas_check(result, raas) ==
  IF raas
  THEN [result EXCEPT !.is_ransomware = TRUE, !.severity = "critical",
                      !.type = "RaaS", !.reasons = Append(@, "RaaS pattern detected")]
  ELSE result

\* file_events[-10:]
LastTen(events) ==
  IF Len(events) <= 10 THEN events ELSE SubSeq(events, Len(events) - 9, Len(events))

\* _check_raas_pattern: the entries among the last ten whose file, read
\* again, has entropy above 7.0; at least five of them.
recent_high_entropy(events) ==
  Cardinality({i \in 1 .. Len(LastTen(events)) :
                 calculate_file_entropy(LastTen(events)[i][2]) > 700})

check_raas_pattern(events) == recent_high_entropy(events) >= 5

\* analyze_file_change, in the segments between its calls.  The segment at
\* "_check_raas_pattern" is the critical section of that method, which only
\* line 174 calls.
analyze_file_change(t) ==
  LET d == det(t)
      f == frame[t]
  IN
  /\ pc[t] \in {"analyze_file_change", "analyze:138", "analyze:139", "analyze:161",
                "_check_raas_pattern", "analyze:175"}
  /\ CASE pc[t] = "analyze_file_change" ->
            LET fme == calculate_file_entropy(f.path) IN
            /\ frame' = [frame EXCEPT ![t].fme = fme,
                                      ![t].result = [InitResult EXCEPT !.fme = fme]]
            /\ Call(t, "add_event", "analyze:138")
            /\ UNCHANGED lock
       [] pc[t] = "analyze:138" ->
            /\ Call(t, "calculate_abt", "analyze:139")
            /\ UNCHANGED <<frame, lock>>
       [] pc[t] = "analyze:139" ->
            /\ frame' = [frame EXCEPT ![t].result =
                 entropy_check(extension_check([f.result EXCEPT !.abt = f.r_abt], f.path), f.fme)]
            /\ Call(t, "is_burst_detected", "analyze:161")
            /\ UNCHANGED lock
       [] pc[t] = "analyze:161" ->
            /\ frame' = [frame EXCEPT ![t].result =
                 rapid_check(burst_check(f.result, f.r_burst), f.action, f.fme)]
            /\ Call(t, "_check_raas_pattern", "analyze:175")
            /\ UNCHANGED lock
       [] pc[t] = "_check_raas_pattern" ->
            /\ lock[d] = NoThread
            /\ frame' = [frame EXCEPT ![t].r_raas = check_raas_pattern(file_events[d])]
            /\ Return(t)
            /\ UNCHANGED lock
       [] pc[t] = "analyze:175" ->
            LET result == raas_check(f.result, f.r_raas) IN
            /\ frame' = [frame EXCEPT ![t].result = result,
                                      ![t].r_alert = result.is_ransomware \/ result.is_suspicious,
                                      ![t].last = "analyze_file_change"]
            /\ Return(t)
            /\ UNCHANGED lock
  /\ UNCHANGED <<writes, entropyVars, otherVars, watcherVars, now, fs, window_size, burst_multiplier, file_events>>

\* ------------------------------------------------------------- the clock
Tick ==
  /\ now < MaxTime
  /\ now' = now + 1
  /\ UNCHANGED <<writes, entropyVars, otherVars, watcherVars, fs, window_size, burst_multiplier, file_events, lock, pc, stack, frame>>

\* ------------------------------------------- the tracker's direct callers
\* test_abt_algorithm: a thread calls add_event, calculate_abt and
\* is_burst_detected on a tracker it built.
call_add_event(t, p) ==
  /\ pc[t] = "idle"
  /\ Len(file_events[det(t)]) < MaxEvents
  /\ pc' = [pc EXCEPT ![t] = "add_event"]
  /\ frame' = [frame EXCEPT ![t] = [EmptyFrame EXCEPT !.path = p]]
  /\ UNCHANGED <<writes, entropyVars, otherVars, watcherVars, now, fs, window_size, burst_multiplier, file_events, lock, stack>>

call_calculate_abt(t) ==
  /\ pc[t] = "idle"
  /\ pc' = [pc EXCEPT ![t] = "calculate_abt"]
  /\ frame' = [frame EXCEPT ![t] = EmptyFrame]
  /\ UNCHANGED <<writes, entropyVars, otherVars, watcherVars, now, fs, window_size, burst_multiplier, file_events, lock, stack>>

call_is_burst_detected(t) ==
  /\ pc[t] = "idle"
  /\ pc' = [pc EXCEPT ![t] = "is_burst_detected"]
  /\ frame' = [frame EXCEPT ![t] = EmptyFrame]
  /\ UNCHANGED <<writes, entropyVars, otherVars, watcherVars, now, fs, window_size, burst_multiplier, file_events, lock, stack>>

TrackerStep(t) ==
  \/ add_event(t)
  \/ calculate_abt(t)
  \/ is_burst_detected(t)

\* The rows of the two tables a db_session holds or the database stores.
NoRows == [file_events |-> <<>>, alerts |-> <<>>]

\* A FileSystemMonitor not built yet, and the locals of a loop not started.
NoMonitor == [watch_paths |-> <<>>, running |-> FALSE, session_closed |-> FALSE]
NoLocals ==
  [last_files |-> {}, current_files |-> {}, root |-> 0, files |-> {},
   deleted_files |-> {}, emitted |-> <<>>, prev_files |-> {}]

InitThreads ==
  /\ pc = [t \in Threads |-> IF t \in Workers THEN "unstarted" ELSE "idle"]
  /\ stack = [t \in Threads |-> <<>>]
  /\ frame = [t \in Threads |-> EmptyFrame]
  /\ monitor_instance = 0
  /\ created = 0
  /\ monitors = [i \in Workers |-> NoMonitor]
  /\ locals = [i \in Workers |-> NoLocals]
  /\ session = [i \in Workers |-> NoRows]
  /\ committed = NoRows

InitABT ==
  /\ now = 0
  /\ fs = [p \in Paths |-> Absent]
  /\ writes = 0
  /\ \E ws \in WindowSizes, bm \in Multipliers :
       /\ window_size = [d \in Detectors |-> ws]
       /\ burst_multiplier = [d \in Detectors |-> bm]
  /\ file_events = [d \in Detectors |-> <<>>]
  /\ lock = [d \in Detectors |-> NoThread]
  /\ InitThreads
  /\ data = <<>>
  /\ entropy = NotComputed
  /\ sample = NoSample
  /\ retention = NoRetention

NextABT ==
  \/ Tick
  \/ \E t \in Harness :
       \/ \E p \in TrackerPaths : call_add_event(t, p)
       \/ call_calculate_abt(t)
       \/ call_is_burst_detected(t)
       \/ TrackerStep(t)

SpecABT == InitABT /\ [][NextABT]_vars

FairSpecABT == SpecABT /\ \A t \in Harness : WF_vars(TrackerStep(t))

\* ------------------------------------------ the detector's direct callers
\* test_ransomware_detector: a thread calls analyze_file_change on a
\* detector it built; files are written and removed between the calls.
call_analyze_file_change(t, p, a) ==
  /\ pc[t] = "idle"
  /\ pc' = [pc EXCEPT ![t] = "analyze_file_change"]
  /\ frame' = [frame EXCEPT ![t] = [EmptyFrame EXCEPT !.path = p, !.action = a]]
  /\ UNCHANGED <<writes, entropyVars, otherVars, watcherVars, now, fs, window_size, burst_multiplier, file_events, lock, stack>>

\* Entries already in the window when a call is made.
call_prior_event(t, p) ==
  /\ Len(file_events[det(t)]) < MaxPrior
  /\ call_add_event(t, p)

\* A write by another process: the file appears with a content, changes its
\* content or is removed.  writes counts them up to MaxWrites; the watcher
\* specification allows no more than that many.
write_file(p, s) ==
  /\ \A t \in Harness : pc[t] = "idle"
  /\ fs[p] # s
  /\ fs' = [fs EXCEPT ![p] = s]
  /\ writes' = IF writes < MaxWrites THEN writes + 1 ELSE writes
  /\ UNCHANGED <<entropyVars, otherVars, watcherVars, now, window_size, burst_multiplier, file_events, lock, pc, stack, frame>>

DetStep(t) ==
  \/ analyze_file_change(t)
  \/ TrackerStep(t)

InitDet ==
  /\ now = 0
  /\ fs = [p \in Paths |-> Absent]
  /\ writes = 0
  /\ window_size = [d \in Detectors |-> DefaultWindowSize]
  /\ burst_multiplier = [d \in Detectors |-> DefaultBurstMultiplier]
  /\ file_events = [d \in Detectors |-> <<>>]
  /\ lock = [d \in Detectors |-> NoThread]
  /\ InitThreads
  /\ data = <<>>
  /\ entropy = NotComputed
  /\ sample = NoSample
  /\ retention = NoRetention

NextDet ==
  \/ \E p \in DetPaths, s \in DetLevels \cup {Absent} : write_file(p, s)
  \/ \E t \in Harness :
       \/ \E p \in DetPaths : call_prior_event(t, p)
       \/ \E p \in DetPaths, a \in Actions : call_analyze_file_change(t, p, a)
       \/ DetStep(t)

SpecDet == InitDet /\ [][NextDet]_vars

FairSpecDet == SpecDet /\ \A t \in Harness : WF_vars(DetStep(t))

\* ------------------------------------------- the rule steps on their own
\* Lines 141-180 of analyze_file_change as a function of the path, the
\* action, the entropy read at line 133 and the values is_burst_detected
\* and _check_raas_pattern hand back: one step per rule, in source order.
RuleLevels == {0, 600, 625, 650, 700, 750, 800}

rule_steps(t) ==
  LET f == frame[t] IN
  /\ pc[t] \in {"rules:141", "rules:147", "rules:159", "rules:166", "rules:173"}
  /\ CASE pc[t] = "rules:141" ->
            /\ frame' = [frame EXCEPT ![t].result = extension_check(f.result, f.path)]
            /\ pc' = [pc EXCEPT ![t] = "rules:147"]
       [] pc[t] = "rules:147" ->
            /\ frame' = [frame EXCEPT ![t].result = entropy_check(f.result, f.fme)]
            /\ pc' = [pc EXCEPT ![t] = "rules:159"]
       [] pc[t] = "rules:159" ->
            /\ frame' = [frame EXCEPT ![t].result = burst_check(f.result, f.r_burst)]
            /\ pc' = [pc EXCEPT ![t] = "rules:166"]
       [] pc[t] = "rules:166" ->
            /\ frame' = [frame EXCEPT ![t].result = rapid_check(f.result, f.action, f.fme)]
            /\ pc' = [pc EXCEPT ![t] = "rules:173"]
       [] pc[t] = "rules:173" ->
            LET result == raas_check(f.result, f.r_raas) IN
            /\ frame' = [frame EXCEPT ![t].result = result,
                                      ![t].r_alert = result.is_ransomware \/ result.is_suspicious,
                                      ![t].last = "rule_steps"]
            /\ pc' = [pc EXCEPT ![t] = "idle"]
  /\ UNCHANGED <<writes, entropyVars, otherVars, watcherVars, now, fs, window_size, burst_multiplier, file_events,
                 lock, stack>>

InitRules ==
  /\ now = 0
  /\ fs = [p \in Paths |-> Absent]
  /\ writes = 0
  /\ window_size = [d \in Detectors |-> DefaultWindowSize]
  /\ burst_multiplier = [d \in Detectors |-> DefaultBurstMultiplier]
  /\ file_events = [d \in Detectors |-> <<>>]
  /\ lock = [d \in Detectors |-> NoThread]
  /\ pc = [t \in Threads |-> IF t \in Workers THEN "unstarted"
                              ELSE IF t \in Harness THEN "rules:141" ELSE "idle"]
  /\ stack = [t \in Threads |-> <<>>]
  /\ \E file_path \in DetPaths, action \in Actions, fme \in RuleLevels,
        burst \in BOOLEAN, raas \in BOOLEAN :
       frame = [t \in Threads |->
                  IF t \in Harness
                  THEN [EmptyFrame EXCEPT !.path = file_path, !.action = action, !.fme = fme,
                                          !.r_burst = burst, !.r_raas = raas,
                                          !.result = [InitResult EXCEPT !.fme = fme,
                                                                        !.abt = <<2, 1>>]]
                  ELSE EmptyFrame]
  /\ monitor_instance = 0
  /\ created = 0
  /\ monitors = [i \in Workers |-> NoMonitor]
  /\ locals = [i \in Workers |-> NoLocals]
  /\ session = [i \in Workers |-> NoRows]
  /\ committed = NoRows
  /\ data = <<>>
  /\ entropy = NotComputed
  /\ sample = NoSample
  /\ retention = NoRetention

NextRules == \E t \in Harness : rule_steps(t)

SpecRules == InitRules /\ [][NextRules]_vars

\* ------------------------------------------- calculate_entropy on its own
\* test_fme_calculation: calculate_entropy applied to a byte sequence.  The
\* sequences are all those of up to MaxData bytes over three byte values,
\* and those in which every byte value occurs k times, k up to MaxRepeat.
ByteSample == {0, 65, 255}
EachByte(k) == [i \in 1 .. 256 * k |-> (i - 1) % 256]
Inputs ==
  UNION {[1 .. n -> ByteSample] : n \in 0 .. MaxData} \cup {EachByte(k) : k \in 1 .. MaxRepeat}

call_calculate_entropy ==
  /\ entropy = NotComputed
  /\ sample = NoSample
  /\ retention = NoRetention
  /\ entropy' = calculate_entropy(data)
  /\ UNCHANGED <<writes, watcherVars, otherVars, data, now, fs, window_size, burst_multiplier, file_events, lock,
                 pc, stack, frame>>

InitEnt ==
  /\ now = 0
  /\ fs = [p \in Paths |-> Absent]
  /\ writes = 0
  /\ window_size = [d \in Detectors |-> DefaultWindowSize]
  /\ burst_multiplier = [d \in Detectors |-> DefaultBurstMultiplier]
  /\ file_events = [d \in Detectors |-> <<>>]
  /\ lock = [d \in Detectors |-> NoThread]
  /\ InitThreads
  /\ data \in Inputs
  /\ entropy = NotComputed
  /\ sample = NoSample
  /\ retention = NoRetention

NextEnt == call_calculate_entropy

SpecEnt == InitEnt /\ [][NextEnt]_vars

\* ------------------------------------------- the file sampling, on sizes
\* Python's min(a, b) on integers.
IntMin(a, b) == IF b < a THEN b ELSE a

\* Line 55.
sample_positions(file_size, sample_size) ==
  <<0, file_size \div 2, IntMax(0, file_size - sample_size)>>

\* Mutant of read_length: sample_size bytes whatever is left of the file.
read_length_unbounded(file_size, sample_size, pos) == sample_size

\* Line 59: the number of bytes asked of f.read at position pos.
read_length(file_size, sample_size, pos) == IntMin(sample_size, file_size - pos)

\* Lines 57-60: the windows read, as <<position, number of bytes>>.
sample_windows(file_size, sample_size) ==
  [k \in 1 .. 3 |->
     <<sample_positions(file_size, sample_size)[k],
       read_length(file_size, sample_size, sample_positions(file_size, sample_size)[k])>>]

\* calculate_file_entropy as far as the reads go: none for an empty file
\* (line 51), else the three windows.
sample_file ==
  /\ ~sample.read
  /\ sample' = [sample EXCEPT !.read = TRUE,
                              !.windows = IF sample.file_size = 0
                                          THEN <<>>
                                          ELSE sample_windows(sample.file_size, sample.sample_size)]
  /\ UNCHANGED <<writes, entropyVars, watcherVars, retention, now, fs, window_size,
                 burst_multiplier, file_events, lock, pc, stack, frame>>

InitSample ==
  /\ now = 0
  /\ fs = [p \in Paths |-> Absent]
  /\ writes = 0
  /\ window_size = [d \in Detectors |-> DefaultWindowSize]
  /\ burst_multiplier = [d \in Detectors |-> DefaultBurstMultiplier]
  /\ file_events = [d \in Detectors |-> <<>>]
  /\ lock = [d \in Detectors |-> NoThread]
  /\ InitThreads
  /\ data = <<>>
  /\ entropy = NotComputed
  /\ \E file_size \in 0 .. MaxSize, sample_size \in 1 .. MaxSample :
       sample = [NoSample EXCEPT !.file_size = file_size, !.sample_size = sample_size]
  /\ retention = NoRetention

NextSample == sample_file

SpecSample == InitSample /\ [][NextSample]_vars

\* ------------------------------------------------------ FileSystemMonitor
\* FileEvent(path, action, fme), lines 250-254; Alert(...), lines 262-269.
FileEventRow(f) == [path |-> f.path, action |-> f.action, fme |-> f.event_fme]
AlertRow(f) ==
  [host |-> "nodename", path |-> f.path, severity |-> f.result.severity,
   fme |-> f.result.fme, abt |-> f.result.abt, type |-> f.result.type]

\* _process_file_event: builds the FileEvent record with a first entropy
\* read (line 254) and adds it to the session, then calls
\* analyze_file_change; line 261 on, the alert and the commit, run when that
\* call returns.  A commit that raises is caught at line 275 and the session
\* is rolled back.
process_file_event(t) ==
  LET f == frame[t] IN
  /\ pc[t] \in {"_process_file_event", "process:261"}
  /\ IF pc[t] = "_process_file_event"
     THEN LET event_fme == calculate_file_entropy(f.path)
              file_event == FileEventRow([f EXCEPT !.event_fme = event_fme])
          IN /\ frame' = [frame EXCEPT ![t].event_fme = event_fme]
             /\ session' = [session EXCEPT ![t].file_events = Append(@, file_event)]
             /\ Call(t, "analyze_file_change", "process:261")
             /\ UNCHANGED committed
     ELSE LET added == IF f.r_alert
                       THEN [session[t] EXCEPT !.alerts = Append(@, AlertRow(f))]
                       ELSE session[t]
          IN \E commit_ok \in BOOLEAN :
               /\ committed' = IF commit_ok
                                THEN [file_events |-> committed.file_events \o added.file_events,
                                      alerts |-> committed.alerts \o added.alerts]
                                ELSE committed
               /\ session' = [session EXCEPT ![t] = NoRows]
               /\ frame' = [frame EXCEPT ![t].last = "_process_file_event",
                                         ![t].raised = ~commit_ok]
               /\ Return(t)
  /\ UNCHANGED <<writes, entropyVars, otherVars, monitor_instance, created, monitors, locals, now, fs,
                 window_size, burst_multiplier, file_events, lock>>

\* The action monitor_loop hands over for a file that is not in last_files,
\* and a mutant of it.
new_file_action_modified == "modified"

new_file_action == "created"

\* The two sleeps of the loop, in seconds: after an iteration that completed
\* and after one that raised.
poll_sleep == 5

except_sleep == 5

\* Mutant of loop_except: the exception ends the thread.
loop_except_propagates(t) ==
  /\ locals' = [locals EXCEPT ![t] = NoLocals]
  /\ pc' = [pc EXCEPT ![t] = "exited"]
  /\ UNCHANGED <<stack, frame>>

\* The handler of line 231: an exception that escapes from the body of the
\* try ends the iteration before line 228, is logged and is followed by the
\* sleep of line 233.  last_files keeps its value; the other locals are
\* rebound by the next iteration before they are read.
loop_except(t) ==
  /\ locals' = [locals EXCEPT ![t] = [NoLocals EXCEPT !.last_files = locals[t].last_files]]
  /\ pc' = [pc EXCEPT ![t] = "sleep:233"]
  /\ UNCHANGED <<stack, frame>>

\* os.walk(path) for one root: the files present under it.
walk(root) == {p \in Paths : p[1] = root /\ fs[p] # Absent}

\* monitor_loop, the body of the worker thread, in the segments between
\* its calls of _process_file_event, its listings of a root and its sleep.
\* The test of the while loop is made when the thread starts and at the end
\* of each sleep; a listing that finds no file goes on to the next root.
\* emitted and prev_files are history: the events handed to
\* _process_file_event in this iteration, and the snapshot the iteration
\* started from.  A listing may raise (line 210): loop_except.
monitor_loop(t) ==
  LET m == monitors[t]
      l == locals[t]
  IN
  /\ pc[t] \in {"monitor_loop", "walk:212", "walk:215", "deleted:225", "sleep:229", "sleep:233"}
  /\ CASE pc[t] \in {"monitor_loop", "sleep:229", "sleep:233"} ->
            IF m.running
            THEN /\ locals' = [locals EXCEPT ![t].current_files = {}, ![t].root = 1,
                                             ![t].emitted = <<>>,
                                             ![t].prev_files = l.last_files]
                 /\ pc' = [pc EXCEPT ![t] = "walk:212"]
                 /\ UNCHANGED <<stack, frame>>
            ELSE \* the thread ends and its locals with it
                 /\ pc' = [pc EXCEPT ![t] = "exited"]
                 /\ locals' = [locals EXCEPT ![t] = NoLocals]
                 /\ frame' = [frame EXCEPT ![t] = EmptyFrame]
                 /\ UNCHANGED stack
       [] pc[t] = "walk:212" ->
            IF l.root > Len(m.watch_paths)
            THEN LET deleted_files == l.last_files \ l.current_files IN
                 IF deleted_files = {}
                 THEN /\ locals' = [locals EXCEPT ![t].deleted_files = {},
                                                  ![t].last_files = l.current_files]
                      /\ pc' = [pc EXCEPT ![t] = "sleep:229"]
                      /\ UNCHANGED <<stack, frame>>
                 ELSE /\ locals' = [locals EXCEPT ![t].deleted_files = deleted_files]
                      /\ pc' = [pc EXCEPT ![t] = "deleted:225"]
                      /\ UNCHANGED <<stack, frame>>
            ELSE \/ LET files == walk(m.watch_paths[l.root]) IN
                    IF files = {}
                    THEN /\ locals' = [locals EXCEPT ![t].root = @ + 1]
                         /\ UNCHANGED <<pc, stack, frame>>
                    ELSE /\ locals' = [locals EXCEPT ![t].files = files]
                         /\ pc' = [pc EXCEPT ![t] = "walk:215"]
                         /\ UNCHANGED <<stack, frame>>
                 \/ loop_except(t)
       [] pc[t] = "walk:215" ->
            IF l.files = {}
            THEN /\ locals' = [locals EXCEPT ![t].root = @ + 1]
                 /\ pc' = [pc EXCEPT ![t] = "walk:212"]
                 /\ UNCHANGED <<stack, frame>>
            ELSE \E file_path \in l.files :
                   IF file_path \notin l.last_files
                   THEN /\ locals' = [locals EXCEPT ![t].files = @ \ {file_path},
                                                    ![t].current_files = @ \cup {file_path},
                                                    ![t].emitted = Append(@, <<file_path, new_file_action>>)]
                        /\ frame' = [frame EXCEPT ![t] =
                             [EmptyFrame EXCEPT !.path = file_path, !.action = new_file_action]]
                        /\ Call(t, "_process_file_event", "walk:215")
                   ELSE /\ locals' = [locals EXCEPT ![t].files = @ \ {file_path},
                                                    ![t].current_files = @ \cup {file_path}]
                        /\ UNCHANGED <<pc, stack, frame>>
       [] pc[t] = "deleted:225" ->
            IF l.deleted_files = {}
            THEN /\ locals' = [locals EXCEPT ![t].last_files = l.current_files]
                 /\ pc' = [pc EXCEPT ![t] = "sleep:229"]
                 /\ UNCHANGED <<stack, frame>>
            ELSE \E file_path \in l.deleted_files :
                   /\ locals' = [locals EXCEPT ![t].deleted_files = @ \ {file_path},
                                                ![t].emitted = Append(@, <<file_path, "deleted">>)]
                   /\ frame' = [frame EXCEPT ![t] =
                        [EmptyFrame EXCEPT !.path = file_path, !.action = "deleted"]]
                   /\ Call(t, "_process_file_event", "deleted:225")
  /\ UNCHANGED <<writes, entropyVars, otherVars, monitor_instance, created, monitors, session, committed,
                 now, fs, window_size, burst_multiplier, file_events, lock>>

\* ------------------------------------------ start / stop / status (Main)
\* Mutant of start_file_monitoring: without the test of line 286.
start_file_monitoring_unguarded(watch_paths) ==
  /\ pc[Main] = "idle"
  /\ created < MaxInst
  /\ LET i == created + 1 IN
     /\ created' = i
     /\ monitor_instance' = i
     /\ monitors' = [monitors EXCEPT ![i] =
          [watch_paths |-> watch_paths, running |-> TRUE, session_closed |-> FALSE]]
     /\ locals' = [locals EXCEPT ![i] = NoLocals]
     /\ pc' = [pc EXCEPT ![i] = "monitor_loop"]
     /\ frame' = [frame EXCEPT ![Main] =
          [EmptyFrame EXCEPT !.last = "start_file_monitoring", !.r_ok = TRUE]]
  /\ UNCHANGED <<writes, entropyVars, otherVars, session, committed, now, fs, window_size, burst_multiplier,
                 file_events, lock, stack>>

\* start_file_monitoring: refuses when _monitor_instance is set; else builds
\* a detector and a monitor, and start_monitoring sets running and starts
\* the worker thread.
start_file_monitoring(watch_paths) ==
  /\ pc[Main] = "idle"
  /\ IF monitor_instance # 0
     THEN /\ frame' = [frame EXCEPT ![Main] =
               [EmptyFrame EXCEPT !.last = "start_file_monitoring", !.r_ok = FALSE]]
          /\ UNCHANGED <<pc, monitor_instance, created, monitors, locals>>
     ELSE /\ created < MaxInst
          /\ LET i == created + 1 IN
             /\ created' = i
             /\ monitor_instance' = i
             /\ monitors' = [monitors EXCEPT ![i] =
                  [watch_paths |-> watch_paths, running |-> TRUE, session_closed |-> FALSE]]
             /\ locals' = [locals EXCEPT ![i] = NoLocals]
             /\ pc' = [pc EXCEPT ![i] = "monitor_loop"]
             /\ frame' = [frame EXCEPT ![Main] =
                  [EmptyFrame EXCEPT !.last = "start_file_monitoring", !.r_ok = TRUE]]
  /\ UNCHANGED <<writes, entropyVars, otherVars, session, committed, now, fs, window_size, burst_multiplier,
                 file_events, lock, stack>>

\* Mutant of stop_file_monitoring: without the assignment of line 314.
stop_file_monitoring_keeps_instance ==
  /\ pc[Main] \in {"idle", "join:243"}
  /\ IF pc[Main] = "idle"
     THEN IF monitor_instance = 0
          THEN /\ frame' = [frame EXCEPT ![Main] =
                    [EmptyFrame EXCEPT !.last = "stop_file_monitoring"]]
               /\ UNCHANGED <<pc, monitors>>
          ELSE /\ monitors' = [monitors EXCEPT ![monitor_instance].running = FALSE]
               /\ frame' = [frame EXCEPT ![Main] =
                    [EmptyFrame EXCEPT !.inst = monitor_instance]]
               /\ pc' = [pc EXCEPT ![Main] = "join:243"]
     ELSE /\ monitors' = [monitors EXCEPT ![frame[Main].inst].session_closed = TRUE]
          /\ frame' = [frame EXCEPT ![Main].last = "stop_file_monitoring",
                                    ![Main].r_joined = (pc[frame[Main].inst] = "exited"),
                                    ![Main].inst = 0]
          /\ pc' = [pc EXCEPT ![Main] = "idle"]
  /\ UNCHANGED <<writes, entropyVars, otherVars, monitor_instance, created, locals, session, committed, now, fs,
                 window_size, burst_multiplier, file_events, lock, stack>>

\* stop_file_monitoring: stop_monitoring clears running, joins the worker
\* for at most 5 seconds and closes the session whether or not the join
\* timed out; then _monitor_instance is cleared.
stop_file_monitoring ==
  /\ pc[Main] \in {"idle", "join:243"}
  /\ IF pc[Main] = "idle"
     THEN IF monitor_instance = 0
          THEN /\ frame' = [frame EXCEPT ![Main] =
                    [EmptyFrame EXCEPT !.last = "stop_file_monitoring"]]
               /\ UNCHANGED <<pc, monitor_instance, monitors>>
          ELSE /\ monitors' = [monitors EXCEPT ![monitor_instance].running = FALSE]
               /\ frame' = [frame EXCEPT ![Main] =
                    [EmptyFrame EXCEPT !.inst = monitor_instance]]
               /\ pc' = [pc EXCEPT ![Main] = "join:243"]
               /\ UNCHANGED monitor_instance
     ELSE \* join returns: the worker has ended, or the timeout has elapsed
          /\ monitors' = [monitors EXCEPT ![frame[Main].inst].session_closed = TRUE]
          /\ monitor_instance' = 0
          /\ frame' = [frame EXCEPT ![Main].last = "stop_file_monitoring",
                                    ![Main].r_joined = (pc[frame[Main].inst] = "exited"),
                                    ![Main].inst = 0]
          /\ pc' = [pc EXCEPT ![Main] = "idle"]
  /\ UNCHANGED <<writes, entropyVars, otherVars, created, locals, session, committed, now, fs, window_size,
                 burst_multiplier, file_events, lock, stack>>

\* get_monitoring_status: "stopped" without a monitor; else the running
\* flag, calculate_abt() and, read without the lock, len(file_events).
\* r_keys are the keys of the dictionary returned.
get_monitoring_status ==
  /\ pc[Main] \in {"idle", "status:328"}
  /\ IF pc[Main] = "idle"
     THEN IF monitor_instance = 0
          THEN /\ frame' = [frame EXCEPT ![Main] =
                    [EmptyFrame EXCEPT !.last = "get_monitoring_status", !.r_status = "stopped",
                                       !.r_keys = {"status", "paths"}]]
               /\ UNCHANGED <<pc, stack>>
          ELSE /\ frame' = [frame EXCEPT ![Main] =
                    [EmptyFrame EXCEPT !.inst = monitor_instance,
                                       !.r_status = IF monitors[monitor_instance].running
                                                    THEN "running" ELSE "stopped"]]
               /\ Call(Main, "calculate_abt", "status:328")
     ELSE /\ frame' = [frame EXCEPT ![Main].r_count = Len(file_events[frame[Main].inst]),
                                    ![Main].r_keys = {"status", "paths", "abt", "recent_events"},
                                    ![Main].last = "get_monitoring_status",
                                    ![Main].inst = 0]
          /\ Return(Main)
  /\ UNCHANGED <<writes, entropyVars, otherVars, watcherVars, now, fs, window_size, burst_multiplier, file_events, lock>>

WorkerStep(t) ==
  \/ monitor_loop(t)
  \/ process_file_event(t)
  \/ analyze_file_change(t)
  \/ TrackerStep(t)

MainStep ==
  \/ stop_file_monitoring
  \/ get_monitoring_status
  \/ calculate_abt(Main)

Init == InitDet

Next ==
  \/ \E p \in WatchFiles, s \in WatchLevels \cup {Absent} : writes < MaxWrites /\ write_file(p, s)
  \/ \E watch_paths \in WatchLists : start_file_monitoring(watch_paths)
  \/ MainStep
  \/ \E t \in Workers : WorkerStep(t)

Spec == Init /\ [][Next]_vars

FairSpec == Spec /\ \A t \in Workers : WF_vars(WorkerStep(t))

\* FairSpec, and a status query that has called calculate_abt goes on when
\* the lock is free.
FairSpecStatus == FairSpec /\ WF_vars(calculate_abt(Main))

\* ------------------------------------------- the poll loop on its own
\* monitor_loop with _process_file_event taken as a call that returns: what
\* an iteration hands over and stores when every event it hands over is
\* dealt with.  The records and the verdict of the event are left out.
WalkLists == {<<"r1", "r2">>, <<"r1", "r1">>}

process_file_event_returns(t) ==
  /\ pc[t] = "_process_file_event"
  /\ frame' = [frame EXCEPT ![t].last = "_process_file_event"]
  /\ Return(t)
  /\ UNCHANGED <<writes, entropyVars, otherVars, watcherVars, now, fs, window_size,
                 burst_multiplier, file_events, lock>>

NextWalk ==
  \/ \E p \in WatchFiles, s \in WatchLevels \cup {Absent} : writes < MaxWrites /\ write_file(p, s)
  \/ \E watch_paths \in WalkLists : start_file_monitoring(watch_paths)
  \/ \E t \in Workers : monitor_loop(t) \/ process_file_event_returns(t)

SpecWalk == Init /\ [][NextWalk]_vars

\* -------------------------------------------------------- RetentionManager
\* backend/app/background_jobs.py.  retention holds the fields running and
\* cleanup_thread (0 is None, k the k-th Thread object created), for every
\* cleanup thread its position in _cleanup_loop and the number of passes of
\* the for loop of line 52 it has made, the set of threads a
\* stop_retention_service has asked to stop, and the position and the last
\* result of the one thread that calls start and stop.  range(6 * 60) is
\* scaled to range(MaxMinutes).  The rows _perform_cleanup deletes are chosen
\* by their created_at, which the rows of the model do not carry: the step
\* is modelled by whether it completes or raises.
nonRetention ==
  <<now, fs, writes, window_size, burst_multiplier, file_events, lock, pc, stack, frame,
    watcherVars, entropyVars, sample>>

CleanupThreads == 1 .. MaxLoops

LoopAlive(k) == retention.loops[k].pc \notin {"unstarted", "exited"}

\* Lines 28-37.
start_retention_service ==
  /\ retention.caller = "idle"
  /\ IF retention.running
     THEN retention' = [retention EXCEPT !.last = "already running"]
     ELSE \E k \in CleanupThreads :
            /\ retention.loops[k].pc = "unstarted"
            /\ \A j \in 1 .. k - 1 : retention.loops[j].pc # "unstarted"
            /\ retention' = [retention EXCEPT !.running = TRUE,
                                              !.cleanup_thread = k,
                                              !.loops[k].pc = "loop:48",
                                              !.last = "started"]
  /\ UNCHANGED nonRetention

\* The positions at which a cleanup thread stays for longer than the five
\* seconds of the join: inside _perform_cleanup and in the sleeps of 60 and
\* 300 seconds.
Outlasts(k) == retention.loops[k].pc \in {"cleanup:50", "sleep:55", "sleep:58"}

\* Lines 39-44.  join(timeout=5) at line 43 returns when the thread has
\* ended or when the five seconds are over, and its caller cannot tell which.
stop_retention_service ==
  /\ CASE retention.caller = "idle" ->
            retention' = [retention EXCEPT
                            !.running = FALSE,
                            !.asked = @ \cup {k \in CleanupThreads : LoopAlive(k)},
                            !.caller = IF retention.cleanup_thread # 0 THEN "join:43" ELSE "idle",
                            !.last = IF retention.cleanup_thread # 0 THEN @ ELSE "stopped"]
       [] retention.caller = "join:43" ->
            \E timed_out \in BOOLEAN :
              /\ ~timed_out => ~LoopAlive(retention.cleanup_thread)
              /\ timed_out => Outlasts(retention.cleanup_thread)
              /\ retention' = [retention EXCEPT !.caller = "idle", !.last = "stopped"]
  /\ UNCHANGED nonRetention

\* The loop test of line 48 and the test of line 53, as thread k reads it:
\* the one field running of the manager.
keeps_running(k) == retention.running

\* Lines 46-58, thread k.
cleanup_loop(k) ==
  LET l == retention.loops[k] IN
  /\ l.pc \in {"loop:48", "cleanup:50", "for:52", "sleep:55", "sleep:58"}
  /\ CASE l.pc = "loop:48" ->
            retention' = [retention EXCEPT !.loops[k].pc =
                            IF keeps_running(k) THEN "cleanup:50" ELSE "exited"]
       [] l.pc = "cleanup:50" ->
            \E raises \in BOOLEAN :
              retention' = [retention EXCEPT !.loops[k] =
                              IF raises THEN [pc |-> "sleep:58", minutes |-> 0]
                              ELSE [pc |-> "for:52", minutes |-> 0]]
       [] l.pc = "for:52" ->
            retention' = [retention EXCEPT !.loops[k] =
                            IF l.minutes = MaxMinutes \/ ~keeps_running(k)
                            THEN [pc |-> "loop:48", minutes |-> 0]
                            ELSE [pc |-> "sleep:55", minutes |-> l.minutes]]
       [] l.pc = "sleep:55" ->
            retention' = [retention EXCEPT !.loops[k] =
                            [pc |-> "for:52", minutes |-> l.minutes + 1]]
       [] l.pc = "sleep:58" ->
            retention' = [retention EXCEPT !.loops[k].pc = "loop:48"]
  /\ UNCHANGED nonRetention

NextRet ==
  \/ start_retention_service
  \/ stop_retention_service
  \/ \E k \in CleanupThreads : cleanup_loop(k)

SpecRet == Init /\ [][NextRet]_vars

\* ================================================================ claims

Returned(t, fn) == pc[t] = "idle" /\ frame[t].last = fn

Has(reasons, r) == \E k \in 1 .. Len(reasons) : reasons[k] = r

\* C1: every call of analyze_file_change terminates and returns a verdict.
\* Checked under FairSpecDet.
C1_AnalyzeReturns ==
  \A t \in Harness :
    (pc[t] = "analyze_file_change") ~> Returned(t, "analyze_file_change")

\* C2: at most one polling worker is alive and inside a poll iteration at
\* any time, whatever start_file_monitoring and stop_file_monitoring calls
\* were made.
Busy(i) == pc[i] \notin {"unstarted", "exited", "monitor_loop", "sleep:229", "sleep:233"}

C2_AtMostOneWorker == Cardinality({i \in Workers : Busy(i)}) <= 1

\* C3: an iteration over disjoint roots that starts from snapshot P and
\* finds the files C ends having emitted exactly one created event for each
\* path of C \ P, one deleted event for each path of P \ C, none for the
\* others, and with C as the stored snapshot.  Checked under FairSpec.
DisjointRoots(i) ==
  \A j, k \in 1 .. Len(monitors[i].watch_paths) :
    j # k => monitors[i].watch_paths[j] # monitors[i].watch_paths[k]

Events(l) == {l.emitted[k] : k \in 1 .. Len(l.emitted)}

IterationDone(i) ==
  LET l == locals[i] IN
  /\ pc[i] = "sleep:229"
  /\ l.last_files = l.current_files
  /\ Cardinality(Events(l)) = Len(l.emitted)
  /\ Events(l) = {<<p, "created">> : p \in l.current_files \ l.prev_files}
                   \cup {<<p, "deleted">> : p \in l.prev_files \ l.current_files}

C3_DiffEmitted ==
  \A i \in Workers :
    (pc[i] = "walk:215" /\ locals[i].files # {} /\ DisjointRoots(i)) ~> IterationDone(i)

\* C4: when at least 5 of the last 10 window entries, the one just recorded
\* included, name files of entropy above 7.0, the call returns a verdict
\* with is_ransomware, severity critical, category RaaS and the reason
\* "RaaS pattern detected".  Checked under FairSpecDet.
C4_RaasVerdict ==
  \A t \in Harness :
    (pc[t] = "analyze:138" /\ check_raas_pattern(file_events[det(t)]))
      ~> (/\ Returned(t, "analyze_file_change")
          /\ frame[t].result.is_ransomware
          /\ frame[t].result.severity = "critical"
          /\ frame[t].result.type = "RaaS"
          /\ Has(frame[t].result.reasons, "RaaS pattern detected"))

\* C5: analyze_file_change(path, "created") on a file of entropy above 7.5
\* returns category Ransomware, severity critical and a "High entropy"
\* reason.  Checked under FairSpecDet.
C5_HighEntropyVerdict ==
  \A t \in Harness :
    (/\ pc[t] = "analyze_file_change"
     /\ frame[t].action = "created"
     /\ calculate_file_entropy(frame[t].path) > 750)
      ~> (/\ Returned(t, "analyze_file_change")
          /\ frame[t].result.type = "Ransomware"
          /\ frame[t].result.severity = "critical"
          /\ Has(frame[t].result.reasons, "High entropy"))

\* C6: analyze_file_change on a path with a suspicious extension returns
\* is_suspicious (an alert-worthy verdict) with a "Suspicious extension"
\* reason, whatever the file's entropy.  Checked under FairSpecDet.
C6_SuspiciousExtension ==
  \A t \in Harness :
    (/\ pc[t] = "analyze_file_change"
     /\ lower(splitext_ext(frame[t].path)) \in suspicious_extensions)
      ~> (/\ Returned(t, "analyze_file_change")
          /\ frame[t].result.is_suspicious
          /\ frame[t].r_alert
          /\ Has(frame[t].result.reasons, "Suspicious extension"))

\* C7: every value calculate_abt returns lies in [1.0, 10.0], for every
\* window size, multiplier and history of add_event calls.
C7_AbtInRange ==
  \A t \in Threads :
    frame[t].last = "calculate_abt" =>
      /\ RLe(<<1, 1>>, frame[t].r_abt)
      /\ RLe(frame[t].r_abt, <<10, 1>>)

\* A call that took the adaptive branch and returned an unclamped value.
C7_Witness ==
  \E t \in Harness :
    /\ Returned(t, "calculate_abt")
    /\ frame[t].n_read >= 10
    /\ RLt(<<1, 1>>, frame[t].r_abt)
    /\ RLt(frame[t].r_abt, <<10, 1>>)

\* C8: calculate_abt returns exactly 2.0 whenever it finds fewer than 10
\* entries in the window, whatever the multiplier and the window size.
C8_DefaultBelowTen ==
  \A t \in Threads :
    (frame[t].last = "calculate_abt" /\ frame[t].n_read < 10) =>
      frame[t].r_abt = <<2, 1>>

\* A call that found nine entries, under a multiplier other than the default.
C8_Witness ==
  \E t \in Harness :
    /\ Returned(t, "calculate_abt")
    /\ frame[t].n_read = 9
    /\ burst_multiplier[det(t)] # DefaultBurstMultiplier

\* C9: a read of the window counts no entry more than window_size seconds
\* old at the time of the read: what calculate_abt counted is the number of
\* entries not older than that, and with fewer than 10 of them it returned
\* the default 2.0.
InWindowAt(d, time) ==
  {k \in 1 .. Len(file_events[d]) : file_events[d][k][1] >= time - window_size[d]}

C9_StaleNotCounted ==
  \A t \in Harness :
    Returned(t, "calculate_abt") =>
      LET fresh == Cardinality(InWindowAt(det(t), frame[t].t_read)) IN
      /\ frame[t].n_read = fresh
      /\ fresh < 10 => frame[t].r_abt = <<2, 1>>

\* C10: is_burst_detected, called while no other thread holds the lock,
\* returns; and it returns TRUE exactly when len(window) / max(1,
\* window_size) exceeds calculate_abt() on that window.  Checked under
\* FairSpecABT.
C10_BurstReturns ==
  \A t \in Harness :
    (pc[t] = "is_burst_detected" /\ lock[det(t)] = NoThread)
      ~> (/\ Returned(t, "is_burst_detected")
          /\ frame[t].r_burst =
               RLt(abt_value(file_events[det(t)], window_size[det(t)], burst_multiplier[det(t)]),
                   <<Len(file_events[det(t)]), IntMax(1, window_size[det(t)])>>))

\* C11: after a quiet period, a rapid succession of events inside the
\* window makes is_burst_detected report a burst: called when the window
\* holds an older entry followed by ten or more entries of the current
\* second, it returns TRUE.  Checked under FairSpecABT.
RapidSuccession(d) ==
  LET n == Len(file_events[d]) IN
  /\ n > 10
  /\ \A k \in n - 9 .. n : file_events[d][k][1] = now
  /\ file_events[d][1][1] < now

C11_BurstReported ==
  \A t \in Harness :
    (pc[t] = "is_burst_detected" /\ RapidSuccession(det(t)))
      ~> (Returned(t, "is_burst_detected") /\ frame[t].r_burst)

\* C12: a start_file_monitoring step taken while _monitor_instance is set
\* returns False, starts no worker and leaves the monitor, its watch paths,
\* the snapshots, the burst windows and the sessions as they were.
StartStep == \E watch_paths \in WatchLists : start_file_monitoring(watch_paths)

C12_StartRefused ==
  [][(StartStep /\ monitor_instance # 0) =>
       /\ frame'[Main].last = "start_file_monitoring"
       /\ frame'[Main].r_ok = FALSE
       /\ \A i \in Workers : pc'[i] = pc[i]
       /\ UNCHANGED <<monitor_instance, created, monitors, locals, file_events, session>>]_vars

\* A start refused while the worker of the running watcher is in its loop.
C12_Witness ==
  /\ Returned(Main, "start_file_monitoring")
  /\ ~frame[Main].r_ok
  /\ monitor_instance # 0
  /\ pc[monitor_instance] \notin {"unstarted", "exited"}

\* C13: the lifecycle stopped -> running -> stopped.  A start taken while
\* the status is "stopped", before any start or after a stop, returns True,
\* and the status is then "running", with a monitor not used before, an
\* empty burst window and an empty snapshot; a stop that completes leaves
\* the status "stopped"; a stop taken while the status is "stopped" changes
\* nothing but the caller's frame.  The status is what lines 321-325 of
\* get_monitoring_status compute.
StatusNow ==
  IF monitor_instance = 0
  THEN "stopped"
  ELSE IF monitors[monitor_instance].running THEN "running" ELSE "stopped"

C14_StatusReport ==
  Returned(Main, "get_monitoring_status") =>
    /\ {"status", "abt", "recent_events"} \subseteq frame[Main].r_keys
    /\ frame[Main].r_status = "running" <=> monitor_instance # 0

\* C15: every event handed to _process_file_event ends with its file-seen
\* row committed, and with its alert row committed exactly when the verdict
\* is alert-worthy; when the processing raised, with neither row committed.
\* Checked under FairSpec.
InRows(row, rows) == \E k \in 1 .. Len(rows) : rows[k] = row

Recorded(i) ==
  LET f == frame[i] IN
  /\ f.last = "_process_file_event"
  /\ IF f.raised
     THEN /\ ~InRows(FileEventRow(f), committed.file_events)
          /\ ~InRows(AlertRow(f), committed.alerts)
     ELSE /\ InRows(FileEventRow(f), committed.file_events)
          /\ InRows(AlertRow(f), committed.alerts) <=> f.r_alert

C15_RecordsCommitted ==
  \A i \in Workers : (pc[i] = "_process_file_event") ~> Recorded(i)

\* C16: every call of analyze_file_change returns a boolean equal to
\* is_ransomware or is_suspicious of the verdict it returns with it.
\* Checked under FairSpecDet.
C16_BooleanIsDisjunction ==
  \A t \in Harness :
    (pc[t] = "analyze_file_change")
      ~> (/\ Returned(t, "analyze_file_change")
          /\ frame[t].r_alert = (frame[t].result.is_ransomware \/ frame[t].result.is_suspicious))

\* C17: an event whose path is missing when _process_file_event reads it
\* gets fme 0.0 without an exception, and the worker goes on with its poll
\* iteration.  Checked under FairSpec.
C17_MissingFileGoesOn ==
  \A i \in Workers :
    (pc[i] = "_process_file_event" /\ fs[frame[i].path] = Absent)
      ~> (/\ frame[i].last = "_process_file_event"
          /\ frame[i].event_fme = 0
          /\ pc[i] \in {"walk:215", "deleted:225"})

\* C18: calculate_entropy returns a value in [0.0, 8.0] for every byte
\* sequence, and exactly 8.0 for a sequence in which each of the 256 byte
\* values occurs equally often.
EquallyOften(bytes) ==
  /\ bytes # <<>>
  /\ \A b \in 0 .. 255 : byte_counts(bytes)[b] = byte_counts(bytes)[0]

C18_EntropyRange ==
  entropy # NotComputed =>
    /\ RLe(<<0, 1>>, entropy)
    /\ RLe(entropy, <<8, 1>>)
    /\ EquallyOften(data) => REq(entropy, <<8, 1>>)

\* The entropy of a sequence that holds every byte value twice.
C18_Witness == entropy # NotComputed /\ EquallyOften(data) /\ Len(data) = 512

\* C19: calculate_entropy returns exactly 0.0 for the empty sequence and for
\* a sequence made of one repeated byte value.
OneValue(bytes) == \A i, j \in 1 .. Len(bytes) : bytes[i] = bytes[j]

C19_ZeroEntropy ==
  (entropy # NotComputed /\ OneValue(data)) => REq(entropy, <<0, 1>>)

\* The entropy of one byte value repeated.
C19_Witness == entropy # NotComputed /\ OneValue(data) /\ Len(data) >= 2

\* C20: no rule step of analyze_file_change lowers the severity (info < low
\* < medium < high < critical) or the category (Benign < Suspicious <
\* Ransomware < RaaS) it found.  Checked under SpecRules.
SeverityRank(severity) ==
  CASE severity = "info" -> 0
    [] severity = "low" -> 1
    [] severity = "medium" -> 2
    [] severity = "high" -> 3
    [] severity = "critical" -> 4

CategoryRank(type) ==
  CASE type = "Benign" -> 0
    [] type = "Suspicious" -> 1
    [] type = "Ransomware" -> 2
    [] type = "RaaS" -> 3

WindowWith(t) == evict(Append(file_events[det(t)], <<now, frame[t].path>>), now - window_size[det(t)])

NoBurst(t) ==
  ~RLt(abt_value(WindowWith(t), window_size[det(t)], burst_multiplier[det(t)]),
       <<Len(WindowWith(t)), IntMax(1, window_size[det(t)])>>)

NoRaaS(t) == ~check_raas_pattern(WindowWith(t))

\* C21: a call of analyze_file_change for action 'modified' on a file whose
\* entropy is above 7.5, with no RaaS match, returns a verdict whose reasons
\* hold "High entropy" and after it "Rapid encryption pattern", whose
\* severity is high and whose type is Ransomware.  Checked under FairSpecDet.
Before(reasons, a, b) ==
  \E i, j \in 1 .. Len(reasons) : i < j /\ reasons[i] = a /\ reasons[j] = b

C21_ModifiedHighEntropy ==
  \A t \in Harness :
    (/\ pc[t] = "analyze_file_change"
     /\ frame[t].action = "modified"
     /\ calculate_file_entropy(frame[t].path) > high_entropy_threshold
     /\ NoRaaS(t))
      ~> (/\ Returned(t, "analyze_file_change")
          /\ Before(frame[t].result.reasons, "High entropy", "Rapid encryption pattern")
          /\ frame[t].result.severity = "high"
          /\ frame[t].result.type = "Ransomware")

\* C22: a call of analyze_file_change for action 'created', with no burst
\* and no RaaS match, returns for an entropy above 6.0 and at most 7.5 a
\* verdict with is_suspicious set, is_ransomware clear, severity medium and
\* type Suspicious, and for an entropy of at most 6.0 a verdict without an
\* entropy reason, with the initial severity and type.  Checked under
\* FairSpecDet.
CreatedCall(t) ==
  /\ pc[t] = "analyze_file_change"
  /\ frame[t].action = "created"
  /\ NoBurst(t)
  /\ NoRaaS(t)

MediumVerdict(t) ==
  /\ Returned(t, "analyze_file_change")
  /\ frame[t].result.is_suspicious
  /\ ~frame[t].result.is_ransomware
  /\ frame[t].result.severity = "medium"
  /\ frame[t].result.type = "Suspicious"

UntouchedVerdict(t) ==
  /\ Returned(t, "analyze_file_change")
  /\ ~Has(frame[t].result.reasons, "High entropy")
  /\ ~Has(frame[t].result.reasons, "Medium entropy")
  /\ frame[t].result.severity = InitResult.severity
  /\ frame[t].result.type = InitResult.type

C22_StrictThresholds ==
  \A t \in Harness :
    /\ (/\ CreatedCall(t)
        /\ calculate_file_entropy(frame[t].path) > medium_entropy_threshold
        /\ calculate_file_entropy(frame[t].path) <= high_entropy_threshold)
         ~> MediumVerdict(t)
    /\ (/\ CreatedCall(t)
        /\ calculate_file_entropy(frame[t].path) <= medium_entropy_threshold)
         ~> UntouchedVerdict(t)

\* C23 as stated: a completed add_event(path) has removed exactly the
\* entries stamped before now - window_size, has (now, path) as the last
\* entry of the window and keeps the survivors in their order, all in one
\* step taken with the lock free.
AddEventStep(t) == pc[t] = "add_event" /\ pc'[t] # "add_event"

NotOlder(events, cutoff_time) ==
  LET keep(e) == e[1] >= cutoff_time IN SelectSeq(events, keep)

Later(events, cutoff_time) ==
  LET keep(e) == e[1] > cutoff_time IN SelectSeq(events, keep)

C23_EvictsOlder ==
  [][\A t \in Harness :
       AddEventStep(t) =>
         /\ lock[det(t)] = NoThread
         /\ file_events'[det(t)] =
              Append(NotOlder(file_events[det(t)], now - window_size[det(t)]),
                     <<now, frame[t].path>>)]_vars

\* C23 amended: a completed add_event(path) has removed exactly the entries
\* stamped at or before now - window_size, those stamped exactly
\* now - window_size included; (now, path) is the last entry of the window
\* and the survivors keep their order, all in one step taken with the lock
\* free.
C23_EvictsUpToCutoff ==
  [][\A t \in Harness :
       AddEventStep(t) =>
         /\ lock[det(t)] = NoThread
         /\ file_events'[det(t)] =
              Append(Later(file_events[det(t)], now - window_size[det(t)]),
                     <<now, frame[t].path>>)]_vars

C23_Witness ==
  \E t \in Harness :
    /\ Returned(t, "add_event")
    /\ frame[t].n_evicted > 0
    /\ Len(file_events[det(t)]) > 1
    /\ file_events[det(t)][Len(file_events[det(t)])] = <<now, frame[t].path>>

\* C24: a call of calculate_abt that finds count >= 10 entries returns
\* (count / window_size) * burst_multiplier clamped to [1.0, 10.0]; under a
\* multiplier that is not negative, no smaller count of at least 10 gives a
\* larger threshold for the same window_size and multiplier.
Clamped(x) ==
  IF RLt(x, <<1, 1>>) THEN <<1, 1>> ELSE IF RLt(<<10, 1>>, x) THEN <<10, 1>> ELSE x

WindowOf(count) == [k \in 1 .. count |-> <<0, NoPath>>]

C24_AdaptiveFormula ==
  \A t \in Threads :
    (frame[t].last = "calculate_abt" /\ frame[t].n_read >= 10) =>
      LET ws == window_size[det(t)]
          bm == burst_multiplier[det(t)]
      IN /\ REq(frame[t].r_abt, Clamped(<<frame[t].n_read * bm[1], ws * bm[2]>>))
         /\ bm[1] >= 0 =>
              \A count \in 10 .. frame[t].n_read :
                RLe(abt_value(WindowOf(count), ws, bm), frame[t].r_abt)

\* A call that found eleven entries and returned more than ten entries give.
C24_Witness ==
  \E t \in Harness :
    /\ Returned(t, "calculate_abt")
    /\ frame[t].n_read = 11
    /\ burst_multiplier[det(t)][1] >= 0
    /\ RLt(abt_value(WindowOf(10), window_size[det(t)], burst_multiplier[det(t)]),
           frame[t].r_abt)

\* C25: every read and every write of the burst window (add_event,
\* calculate_abt, is_burst_detected, the RaaS check, the event count of the
\* status query) is made by a thread that holds the window's lock: no thread
\* makes one while another thread holds that lock.
WindowAccess(t) ==
  /\ pc[t] \in {"add_event", "calculate_abt", "is_burst_detected", "_check_raas_pattern",
                "status:328"}
  /\ pc'[t] # pc[t]

C25_AccessUnderLock ==
  [][\A t \in Threads : WindowAccess(t) => lock[det(t)] \in {NoThread, t}]_vars

\* C26: the lock is held only to append and evict or to read the window,
\* never across other work such as file reads, so a status query that has
\* called calculate_abt is not kept waiting by an evaluation in progress: it
\* gets the lock and goes on to read the event count.  Checked under
\* FairSpecStatus.
C26_StatusNotBlocked == (pc[Main] = "calculate_abt") ~> (pc[Main] = "status:328")

\* C27: every event the watcher hands to the detector has action 'created'
\* or 'deleted', and no verdict of a watcher's event holds the reason
\* "Rapid encryption pattern" or has severity high.
C27_WatcherActions ==
  \A i \in Workers :
    /\ frame[i].action \in {"none", "created", "deleted"}
    /\ \A k \in 1 .. Len(locals[i].emitted) : locals[i].emitted[k][2] \in {"created", "deleted"}
    /\ ~Has(frame[i].result.reasons, "Rapid encryption pattern")
    /\ frame[i].result.severity # "high"

\* A watcher's event under evaluation, for a file whose entropy is above
\* the 6.5 of the rapid-encryption rule.
C27_Witness ==
  \E i \in Workers :
    /\ frame[i].action = "created"
    /\ frame[i].fme > 650
    /\ frame[i].result.severity = "critical"

\* C28: an iteration that has a configured root without any file under it
\* (absent: line 213 skips it; os.walk yields nothing for it either) still
\* completes: the other roots are walked, the snapshot becomes the files
\* found, and the paths reported deleted are exactly those of the previous
\* snapshot that were not found.  Checked under FairSpec.
AbsentRootAhead(i) ==
  \E k \in (locals[i].root + 1) .. Len(monitors[i].watch_paths) :
    walk(monitors[i].watch_paths[k]) = {}

Deleted(l) == {e[1] : e \in {x \in Events(l) : x[2] = "deleted"}}

C28_AbsentRootTolerated ==
  \A i \in Workers :
    (pc[i] = "walk:215" /\ locals[i].files # {} /\ AbsentRootAhead(i))
      ~> (/\ pc[i] = "sleep:229"
          /\ locals[i].last_files = locals[i].current_files
          /\ Deleted(locals[i]) = locals[i].prev_files \ locals[i].current_files)

\* C29: an exception that escapes inside a poll iteration is caught at the
\* loop boundary: the worker goes to the sleep of the handler with running
\* and the snapshot last_files as they were; after that sleep it starts
\* another iteration from that snapshot if running is still set; and a
\* worker ends only when running is clear.
C29_ExceptionCaught ==
  [][\A i \in Workers :
       /\ (pc[i] = "walk:212" /\ pc'[i] \notin {"walk:212", "walk:215", "deleted:225", "sleep:229"})
            => /\ pc'[i] = "sleep:233"
               /\ monitors'[i].running = monitors[i].running
               /\ locals'[i].last_files = locals[i].last_files
       /\ (pc[i] = "sleep:233" /\ pc'[i] # "sleep:233")
            => IF monitors[i].running
               THEN /\ pc'[i] = "walk:212"
                    /\ locals'[i].last_files = locals[i].last_files
                    /\ locals'[i].prev_files = locals[i].last_files
               ELSE pc'[i] = "exited"
       /\ (pc[i] # "exited" /\ pc'[i] = "exited") => ~monitors[i].running]_vars

\* A worker in the sleep of the handler, its monitor still running.
C29_Witness == \E i \in Workers : pc[i] = "sleep:233" /\ monitors[i].running

\* C30: the sleep a worker takes after an iteration that raised is strictly
\* longer than the sleep it takes after an iteration that completed.
C30_BackoffLonger ==
  \A i \in Workers : pc[i] = "sleep:233" => except_sleep > poll_sleep

\* C31: once stop has cleared running, the worker starts no new directory
\* walk and leaves the loop: a started worker whose running flag is clear
\* has ended or will end.  Checked under FairSpec.
Alive(i) == pc[i] \notin {"unstarted", "exited"}

C31_StopTakesEffect ==
  \A i \in Workers : (Alive(i) /\ ~monitors[i].running) ~> (pc[i] = "exited")

\* C32: when stop_file_monitoring has returned and the status is "stopped",
\* the worker of the stopped monitor has ended, as has every worker started
\* before it: no worker is alive then.
C32_StoppedMeansEnded ==
  (Returned(Main, "stop_file_monitoring") /\ StatusNow = "stopped")
    => \A i \in Workers : ~Alive(i)

\* C33: for a file of size s >= 1 and a sample_size k >= 1,
\* calculate_file_entropy reads three windows, at 0, s // 2 and
\* max(0, s - k), each of them inside [0, s); together they hold at most
\* 3 * k bytes, and when s <= k they cover every byte of the file.
Covered(w) == {b \in 0 .. MaxSize + MaxSample : \E k \in 1 .. Len(w) :
                                                   w[k][1] <= b /\ b < w[k][1] + w[k][2]}

C33_SampleWindows ==
  (sample.read /\ sample.file_size >= 1) =>
    LET s == sample.file_size
        k == sample.sample_size
        w == sample.windows
    IN /\ Len(w) = 3
       /\ w[1][1] = 0
       /\ w[2][1] = s \div 2
       /\ w[3][1] = IF s - k > 0 THEN s - k ELSE 0
       /\ \A j \in 1 .. 3 : w[j][1] >= 0 /\ w[j][2] >= 1 /\ w[j][1] + w[j][2] <= s
       /\ w[1][2] + w[2][2] + w[3][2] <= 3 * k
       /\ s <= k => Covered(w) = 0 .. s - 1

\* A file smaller than the sample, read whole by overlapping windows.
C33_Witness ==
  /\ sample.read
  /\ sample.file_size >= 2
  /\ sample.file_size < sample.sample_size
  /\ Covered(sample.windows) = 0 .. sample.file_size - 1

\* C34: the RaaS step sets type RaaS only for a window whose recent entries
\* name at least 5 distinct paths of high entropy; events repeated for one
\* path of high entropy do not make it set RaaS.  Stated of the RaaS step
\* (lines 174-178, 185-188) applied to every window a detector comes to hold.
HighEntropyPaths(events) ==
  {LastTen(events)[k][2] : k \in {j \in 1 .. Len(LastTen(events)) :
                                    calculate_file_entropy(LastTen(events)[j][2]) > 700}}

BurstOn(events, ws, bm) ==
  burst_decision(abt_value(events, ws, bm), <<Len(events), IntMax(1, ws)>>)

DefaultCounts == {0, 1, 9, 10, 120, 121, 200, 599, 600}

C36_BurstNeedsVolume ==
  /\ \A d \in Detectors :
       (burst_multiplier[d][1] >= burst_multiplier[d][2]
          /\ BurstOn(file_events[d], window_size[d], burst_multiplier[d]))
         => IF Len(file_events[d]) >= 10
            THEN Len(file_events[d]) > 10 * window_size[d]
            ELSE Len(file_events[d]) > 2 * window_size[d]
  /\ \A count \in DefaultCounts :
       ~BurstOn(WindowOf(count), DefaultWindowSize, DefaultBurstMultiplier)

\* A thread inside is_burst_detected, on a window of more than ten entries
\* per second of the window, under the multiplier 3.0.
C36_Witness ==
  \E t \in Harness :
    /\ pc[t] = "calculate_abt"
    /\ lock[det(t)] = t
    /\ burst_multiplier[det(t)][1] >= burst_multiplier[det(t)][2]
    /\ Len(file_events[det(t)]) >= 10
    /\ BurstOn(file_events[det(t)], window_size[det(t)], burst_multiplier[det(t)])

\* C37: in every verdict the rule steps of analyze_file_change end with,
\* is_ransomware implies a severity of high or critical and a type of
\* Ransomware or RaaS, and a verdict with neither is_ransomware nor
\* is_suspicious has severity info, type Benign and no reason.  Checked
\* under SpecRules.
C37_VerdictShape ==
  \A t \in Harness :
    Returned(t, "rule_steps") =>
      LET v == frame[t].result IN
      /\ v.is_ransomware => (v.severity \in {"high", "critical"} /\ v.type \in {"Ransomware", "RaaS"})
      /\ (~v.is_ransomware /\ ~v.is_suspicious)
           => (v.severity = "info" /\ v.type = "Benign" /\ v.reasons = <<>>)

\* A verdict of the rapid-encryption rule alone, on a file of medium
\* entropy.
C37_Witness ==
  \E t \in Harness :
    /\ Returned(t, "rule_steps")
    /\ frame[t].result.is_ransomware
    /\ frame[t].result.severity = "high"
    /\ Has(frame[t].result.reasons, "Medium entropy")

\* The reasons of the rules that assign a type (lines 150, 155, 170, 177).
TypeReasons ==
  {"High entropy", "Medium entropy", "Rapid encryption pattern", "RaaS pattern detected"}

\* The verdicts for which _process_file_event (lines 261-271) adds an Alert
\* row, with the severity and type of the verdict.
AlertWorthy(t) == Returned(t, "rule_steps") /\ frame[t].r_alert

VerdictStarted(i) == Has(stack[i], "process:261") /\ pc[i] # "analyze_file_change"

\* C39: for one watcher event, the fme of the file-seen record (line 254)
\* equals the fme of the verdict (line 134), whatever other processes do to
\* the file meanwhile.
C39_OneFmePerEvent ==
  \A i \in Workers :
    VerdictStarted(i) =>
      /\ session[i].file_events # <<>>
      /\ session[i].file_events[Len(session[i].file_events)].fme = frame[i].result.fme

\* C40: a cleanup thread that a stop_retention_service has asked to stop
\* never starts another _perform_cleanup, whatever calls of
\* start_retention_service follow; so that no two cleanup loops clean.
C40_StoppedLoopStaysStopped ==
  [][\A k \in CleanupThreads :
       (k \in retention.asked /\ retention.loops[k].pc = "loop:48")
         => retention'.loops[k].pc # "cleanup:50"]_vars

====
